---- MODULE Spec2Model ----
(***************************************************************************)
(* Model of src/libfetchers/github.cc: the GitHub / GitLab archive input   *)
(* schemes (GitArchiveInputScheme and its two subclasses).                 *)
(*                                                                         *)
(* Text values (owner, repo, ref, rev, host, path segments) are sequences  *)
(* of one-character strings so that the regular expressions and the hash   *)
(* parser can be computed character by character.  Scheme and attribute    *)
(* names are TLA+ strings.  An Input is its attribute map: a function from *)
(* a finite set of attribute names to values.                              *)
(***************************************************************************)
EXTENDS Integers, Sequences, FiniteSets, TLC

\* ------------------------------------------------------------------ bounds

\* Length of a commit hash in hexadecimal characters (40 in the program,
\* scaled down here; every hash of the model has exactly this length).
RevLen == 2

\* Number of concurrent callers of fetch.
NumCallers == 2

\* Cap of the per-revision counter of successful tarball downloads.
MaxDownloads == 2

\* ------------------------------------------------------- character classes

Digits == {"0", "1", "2", "3", "4", "5", "6", "7", "8", "9"}

HexLower == {"a", "b", "c", "d", "e", "f"}

HexUpper == {"A", "B", "C", "D", "E", "F"}

Lower == HexLower \cup {"g", "h", "i", "j", "k", "l", "m", "n", "o", "p", "q",
                        "r", "s", "t", "u", "v", "w", "x", "y", "z"}

Upper == HexUpper \cup {"G", "H", "I", "J", "K", "L", "M", "N", "O", "P", "Q",
                        "R", "S", "T", "U", "V", "W", "X", "Y", "Z"}

AlNum == Lower \cup Upper \cup Digits

AllMatch(s, first, rest) ==
    \A i \in 1..Len(s) : s[i] \in (IF i = 1 THEN first ELSE rest)

\* revRegex: [0-9a-fA-F]{40}
revRegex(s) ==
    /\ Len(s) = RevLen
    /\ AllMatch(s, Digits \cup HexLower \cup HexUpper, Digits \cup HexLower \cup HexUpper)

\* refRegex: [a-zA-Z0-9][a-zA-Z0-9_.-]*
refRegex(s) ==
    /\ Len(s) >= 1
    /\ AllMatch(s, AlNum, AlNum \cup {"_", ".", "-"})

\* urlRegex: [a-zA-Z0-9.]*  (the empty string matches)
urlRegex(s) == AllMatch(s, AlNum \cup {"."}, AlNum \cup {"."})

\* ------------------------------------------------------------------ hashes

ToLower(ch) ==
    CASE ch = "A" -> "a" [] ch = "B" -> "b" [] ch = "C" -> "c"
      [] ch = "D" -> "d" [] ch = "E" -> "e" [] ch = "F" -> "f"
      [] OTHER -> ch

\* The empty optional of a record-valued result.
None == [none |-> TRUE]

\* The empty optional of a text or hash value (std::nullopt): a sequence
\* that is no text, since its element is not a character.
NoText == <<"">>

\* Hash::parseAny(s, htSHA1) restricted to the hexadecimal encoding: the
\* raw hash, written here as its lower-case hexadecimal digits, or NoText when
\* s is not a hash (the program then throws BadHash).
parseAny(s) ==
    IF revRegex(s) THEN [i \in 1..Len(s) |-> ToLower(s[i])] ELSE NoText

\* Hash::gitRev() == to_string(Base16, false): lower-case hexadecimal.
gitRev(h) == h

\* -------------------------------------------------------------- attributes

Has(attrs, name) == name \in DOMAIN attrs

insert_or_assign(attrs, name, value) == (name :> value) @@ attrs

erase(attrs, name) == [k \in (DOMAIN attrs) \ {name} |-> attrs[k]]

Attrs0 == [k \in {} |-> None]

\* Input::getRef(): the ref attribute, if any.
getRef(attrs) == IF Has(attrs, "ref") THEN attrs["ref"] ELSE NoText

\* Input::getRev(): the parsed rev attribute, if any.
getRev(attrs) == IF Has(attrs, "rev") THEN parseAny(attrs["rev"]) ELSE NoText

\* The two registered schemes, by their type().
Types == {"github", "gitlab"}

\* ------------------------------------------------------------ inputFromURL

\* tokenizeString(path, "/"): the non-empty pieces between separators.  A
\* path is written as the sequence of pieces between its '/' characters.
tokenizeString(path) == SelectSeq(path, LAMBDA s : Len(s) > 0)

\* url.query is a std::map: the loop visits the names in sorted order.
QueryNames == <<"dir", "host", "ref", "rev">>

Fail(kind) == [status |-> kind]

\* queryStep without the checks for a second rev or ref.
queryStepNoDup(st, name, value) ==
    IF st.err # "ok" THEN st
    ELSE IF name = "rev" THEN
        IF parseAny(value) = NoText THEN [st EXCEPT !.err = "BadHash"]
        ELSE [st EXCEPT !.rev = parseAny(value)]
    ELSE IF name = "ref" THEN
        IF ~refRegex(value) THEN [st EXCEPT !.err = "BadURL"]
        ELSE [st EXCEPT !.ref = value]
    ELSE IF name = "host" THEN
        IF ~urlRegex(value) THEN [st EXCEPT !.err = "BadURL"]
        ELSE [st EXCEPT !.host_url = value]
    ELSE st

\* One iteration of the loop over url.query (lines 55-74); st carries the
\* three optionals and the exception thrown so far, if any.
queryStep(st, name, value) ==
    IF st.err # "ok" THEN st
    ELSE IF name = "rev" THEN
        IF st.rev # NoText THEN [st EXCEPT !.err = "BadURL"]
        ELSE IF parseAny(value) = NoText THEN [st EXCEPT !.err = "BadHash"]
        ELSE [st EXCEPT !.rev = parseAny(value)]
    ELSE IF name = "ref" THEN
        IF ~refRegex(value) THEN [st EXCEPT !.err = "BadURL"]
        ELSE IF st.ref # NoText THEN [st EXCEPT !.err = "BadURL"]
        ELSE [st EXCEPT !.ref = value]
    ELSE IF name = "host" THEN
        IF ~urlRegex(value) THEN [st EXCEPT !.err = "BadURL"]
        ELSE [st EXCEPT !.host_url = value]
    ELSE st

RECURSIVE queryLoop(_, _, _)
queryLoop(st, query, i) ==
    IF i > Len(QueryNames) THEN st
    ELSE IF QueryNames[i] \in DOMAIN query
         THEN queryLoop(queryStep(st, QueryNames[i], query[QueryNames[i]]), query, i + 1)
         ELSE queryLoop(st, query, i + 1)

\* buildInput without the host attribute.
buildInputNoHost(t, path, st) ==
    LET a0 == insert_or_assign(Attrs0, "type", t)
        a1 == insert_or_assign(a0, "owner", path[1])
        a2 == insert_or_assign(a1, "repo", path[2])
        a3 == IF st.rev # NoText THEN insert_or_assign(a2, "rev", gitRev(st.rev)) ELSE a2
        a4 == IF st.ref # NoText THEN insert_or_assign(a3, "ref", st.ref) ELSE a3
    IN  a4

\* Lines 79-87: the Input built from the parsed pieces.
buildInput(t, path, st) ==
    LET a0 == insert_or_assign(Attrs0, "type", t)
        a1 == insert_or_assign(a0, "owner", path[1])
        a2 == insert_or_assign(a1, "repo", path[2])
        a3 == IF st.rev # NoText THEN insert_or_assign(a2, "rev", gitRev(st.rev)) ELSE a2
        a4 == IF st.ref # NoText THEN insert_or_assign(a3, "ref", st.ref) ELSE a3
        a5 == IF st.host_url # NoText THEN insert_or_assign(a4, "host", st.host_url) ELSE a4
    IN  a5

\* GitArchiveInputScheme::inputFromURL for the scheme whose type() is t.
\* status "none" is the empty optional, "ok" carries the Input, anything
\* else is the exception thrown.
inputFromURL(t, url) ==
    IF url.scheme # t THEN Fail("none")
    ELSE
      LET path == tokenizeString(url.path) IN
      IF Len(path) \notin {2, 3} THEN Fail("BadURL")
      ELSE IF Len(path) = 3 /\ ~revRegex(path[3]) /\ ~refRegex(path[3]) THEN Fail("BadURL")
      ELSE
        LET st0 == [rev |-> IF Len(path) = 3 /\ revRegex(path[3])
                            THEN parseAny(path[3]) ELSE NoText,
                    ref |-> IF Len(path) = 3 /\ ~revRegex(path[3])
                            THEN path[3] ELSE NoText,
                    host_url |-> NoText,
                    err |-> "ok"]
            st == queryLoop(st0, url.query, 1)
        IN  IF st.err # "ok" THEN Fail(st.err)
            ELSE IF st.ref # NoText /\ st.rev # NoText THEN Fail("BadURL")
            ELSE [status |-> "ok", input |-> buildInput(t, path, st)]

\* ---------------------------------------------------------- inputFromAttrs

AllowedAttrs == {"type", "owner", "repo", "ref", "rev", "narHash", "lastModified", "host"}

\* inputFromAttrs that looks for owner and repo before the attribute names.
inputFromAttrsOwnerFirst(t, attrs) ==
    IF ~Has(attrs, "type") \/ attrs["type"] # t THEN Fail("none")
    ELSE IF ~Has(attrs, "owner") \/ ~Has(attrs, "repo") THEN Fail("MissingAttribute")
    ELSE IF \E name \in DOMAIN attrs : name \notin AllowedAttrs
         THEN Fail("UnsupportedAttribute")
    ELSE [status |-> "ok", input |-> attrs]

\* Lines 90-104.  The two exceptions are both thrown as Error; they are
\* named here after their messages.
inputFromAttrs(t, attrs) ==
    IF ~Has(attrs, "type") \/ attrs["type"] # t THEN Fail("none")
    ELSE IF \E name \in DOMAIN attrs : name \notin AllowedAttrs
         THEN Fail("UnsupportedAttribute")
    ELSE IF ~Has(attrs, "owner") \/ ~Has(attrs, "repo") THEN Fail("MissingAttribute")
    ELSE [status |-> "ok", input |-> attrs]

\* ------------------------------------------------------------------- toURL

\* toURL that renders owner and repo only.
toURLNoRefRev(t, inp) ==
    [status |-> "ok",
     url |-> [scheme |-> t, path |-> <<inp["owner"], inp["repo"]>>, query |-> Attrs0]]

\* Lines 106-120.  The path is the sequence of the pieces joined by '/'.
toURL(t, input) ==
    LET ref == getRef(input)
        rev == getRev(input)
        path == <<input["owner"], input["repo"]>>
    IN  IF ref # NoText /\ rev # NoText THEN Fail("AssertionFailure")
        ELSE [status |-> "ok",
              url |-> [scheme |-> t,
                       path |-> IF ref # NoText THEN Append(path, ref)
                                ELSE IF rev # NoText THEN Append(path, gitRev(rev))
                                ELSE path,
                       query |-> Attrs0]]

\* -------------------------------------------------------------- hasAllInfo

\* hasAllInfo that looks at rev alone.
hasAllInfoRevOnly(inp) == getRev(inp) # NoText

hasAllInfo(input) == getRev(input) # NoText /\ Has(input, "lastModified")

\* ---------------------------------------------------------- applyOverrides

\* ref and rev are the optional overrides (NoText when not supplied).
applyOverrides(input, ref, rev) ==
    IF rev # NoText /\ ref # NoText THEN Fail("BadURL")
    ELSE
      LET i1 == IF rev # NoText
                THEN erase(insert_or_assign(input, "rev", gitRev(rev)), "ref")
                ELSE input
          i2 == IF ref # NoText
                THEN erase(insert_or_assign(i1, "ref", ref), "rev")
                ELSE i1
      IN  [status |-> "ok", input |-> i2]

\* ------------------------------------------------------ provider adapters

\* The host of the request that getRevFromRef sends (lines 211 and 267).
\* The GitLab variant reads the attribute "url".
resolveHost(t, input) ==
    IF t = "github"
    THEN (IF Has(input, "host") THEN input["host"] ELSE <<"github.com">>)
    ELSE (IF Has(input, "url") THEN input["url"] ELSE <<"gitlab.com">>)

\* The request of getRevFromRef: provider, host, repository and ref.
revRequest(t, input) ==
    [type |-> t, host |-> resolveHost(t, input),
     owner |-> input["owner"], repo |-> input["repo"], ref |-> getRef(input)]

\* The host of the archive request built by getDownloadUrl (lines 233, 292).
downloadHost(t, input) ==
    IF Has(input, "host") THEN input["host"]
    ELSE IF t = "github" THEN <<"github.com">> ELSE <<"gitlab.com">>

\* getDownloadUrl: provider, host, repository and revision of the archive.
getDownloadUrl(t, input) ==
    [type |-> t, host |-> downloadHost(t, input),
     owner |-> input["owner"], repo |-> input["repo"], rev |-> getRev(input)]

\* ------------------------------------------------------------ collaborators

\* The hashes the remote repositories of the model contain.
R1 == [i \in 1..RevLen |-> "a"]

R2 == [i \in 1..RevLen |-> IF i = 1 THEN "b" ELSE "a"]

Revs == {R1, R2}

\* downloadTarball: the unpacked tree is identified by the archive request
\* it was downloaded for; lastModified is the commit time of the revision.
downloadTarball(req) ==
    [tree |-> [storePath |-> req], lastModified |-> IF req.rev = R1 THEN 1 ELSE 2]

\* Cache::lookup: the entry stored under the key, if any.
lookup(c, key) == IF key \in DOMAIN c THEN c[key] ELSE None

\* Cache::add: stores (replacing any entry of) the key.
add(c, key, infoAttrs, storePath) ==
    (key :> [info |-> infoAttrs, storePath |-> storePath]) @@ c

\* -------------------------------------------------------------------- state

VARIABLES
    input,      \* the Input the client holds (None before the first one)
    last,       \* the last Input operation: its name, arguments and result
    cache,      \* the fetcher cache: key attributes -> entry
    calls,      \* per caller: the fetch call in progress, if any
    firstTree,  \* history: per revision, the tree of its first successful fetch
    downloads,  \* history: per revision, the number of completed downloads
    remembered  \* history: one earlier successful fetch, or None

vars == <<input, last, cache, calls, firstTree, downloads, remembered>>

Callers == 1..NumCallers

IdleCall == [pc |-> "idle"]

Init ==
    /\ input = None
    /\ last = [op |-> "none"]
    /\ cache = Attrs0
    /\ calls = [c \in Callers |-> IdleCall]
    /\ firstTree = [r \in Revs |-> None]
    /\ downloads = [r \in Revs |-> 0]
    /\ remembered = None

NoCall == \A c \in Callers : calls[c].pc = "idle"

\* ------------------------------------------------- operations on an Input

\* The client holds no Input and no result.
ClientIdle == NoCall /\ input = None /\ last.op = "none"

Taken(res) == IF res.status = "ok" THEN res.input ELSE input

\* A client without an Input asks a scheme for the Input of a URL.
InputFromURL(t, url) ==
    /\ ClientIdle
    /\ last' = [op |-> "inputFromURL", type |-> t, url |-> url,
                res |-> inputFromURL(t, url)]
    /\ input' = Taken(inputFromURL(t, url))
    /\ UNCHANGED <<cache, calls, firstTree, downloads, remembered>>

\* A client without an Input asks a scheme for the Input of an attribute bag.
InputFromAttrs(t, attrs) ==
    /\ ClientIdle
    /\ last' = [op |-> "inputFromAttrs", type |-> t, attrs |-> attrs,
                res |-> inputFromAttrs(t, attrs)]
    /\ input' = Taken(inputFromAttrs(t, attrs))
    /\ UNCHANGED <<cache, calls, firstTree, downloads, remembered>>

ApplyOverrides(ref, rev) ==
    /\ NoCall
    /\ input # None
    /\ last' = [op |-> "applyOverrides", arg |-> input, ref |-> ref, rev |-> rev,
                res |-> applyOverrides(input, ref, rev)]
    /\ input' = Taken(applyOverrides(input, ref, rev))
    /\ UNCHANGED <<cache, calls, firstTree, downloads, remembered>>

\* The client renders the Input it holds.  from keeps the inputFromURL call
\* that returned this Input, when that was the last operation.
ToURL ==
    /\ NoCall
    /\ input # None
    /\ last' = [op |-> "toURL", arg |-> input, res |-> toURL(input["type"], input),
                from |-> IF last.op = "inputFromURL" /\ last.res.status = "ok"
                              /\ ~Has(last, "from")
                         THEN last ELSE [op |-> "other"]]
    /\ UNCHANGED <<input, cache, calls, firstTree, downloads, remembered>>

\* The client parses the URL that toURL has just returned, with the scheme
\* that rendered it.
ParseRendered ==
    /\ NoCall
    /\ last.op = "toURL" /\ last.res.status = "ok"
    /\ LET url == last.res.url
           res == inputFromURL(url.scheme, url)
       IN  /\ last' = [op |-> "inputFromURL", type |-> url.scheme, url |-> url,
                       res |-> res, from |-> last]
           /\ input' = Taken(res)
    /\ UNCHANGED <<cache, calls, firstTree, downloads, remembered>>

\* The client drops the Input it holds and the result of its last operation.
Discard ==
    /\ NoCall
    /\ last.op # "none"
    /\ input' = None
    /\ last' = [op |-> "none"]
    /\ UNCHANGED <<cache, calls, firstTree, downloads, remembered>>

\* -------------------------------------------------------------------- fetch

\* A cache key that also carries the host of the Input.
immutableAttrsWithHost(inp, rev) ==
    LET key == insert_or_assign(insert_or_assign(Attrs0, "type", "git-tarball"),
                                "rev", gitRev(rev))
    IN  IF Has(inp, "host") THEN insert_or_assign(key, "host", inp["host"]) ELSE key

\* immutableAttrs without the revision.
immutableAttrsNoRev(inp, rev) == insert_or_assign(Attrs0, "type", "git-tarball")

\* immutableAttrs tagged with the type of the Input.
immutableAttrsPerType(inp, rev) ==
    insert_or_assign(insert_or_assign(Attrs0, "type", inp["type"]), "rev", gitRev(rev))

\* Lines 163-166: the cache key, built where fetch has its copy inp of the
\* Input and the revision in scope; only the revision is used.
immutableAttrs(inp, rev) ==
    insert_or_assign(insert_or_assign(Attrs0, "type", "git-tarball"), "rev", gitRev(rev))

\* withRev that leaves the ref in place.
withRevKeepRef(inp, rev) == insert_or_assign(inp, "rev", gitRev(rev))

\* Lines 160-161, once the revision is known.
withRev(inp, rev) == insert_or_assign(erase(inp, "ref"), "rev", gitRev(rev))

\* FetchBegin that leaves an absent ref absent.
FetchBeginNoHead(c) ==
    /\ calls[c].pc = "idle"
    /\ input # None
    /\ LET t == input["type"]
           rev == getRev(input)
           base == [t |-> t, arg |-> input, cache0 |-> cache]
       IN  calls' = [calls EXCEPT ![c] =
             IF rev = NoText
             THEN base @@ [pc |-> "resolve", input |-> input,
                           log |-> <<[ev |-> "getRevFromRef", req |-> revRequest(t, input)]>>]
             ELSE base @@ [pc |-> "lookup", input |-> withRev(input, rev), rev |-> rev,
                           log |-> <<>>]]
    /\ last' = [op |-> "fetch"]
    /\ UNCHANGED <<input, cache, firstTree, downloads, remembered>>

\* Lines 153-158: copy the Input, default the ref to HEAD, read the rev and,
\* when there is none, send the ref-resolution request.
FetchBegin(c) ==
    /\ calls[c].pc = "idle"
    /\ input # None
    /\ LET t == input["type"]
           inp == IF Has(input, "ref") THEN input
                  ELSE insert_or_assign(input, "ref", <<"H", "E", "A", "D">>)
           rev == getRev(inp)
           base == [t |-> t, arg |-> input, cache0 |-> cache]
       IN  calls' = [calls EXCEPT ![c] =
             IF rev = NoText
             THEN base @@ [pc |-> "resolve", input |-> inp,
                           log |-> <<[ev |-> "getRevFromRef", req |-> revRequest(t, inp)]>>]
             ELSE base @@ [pc |-> "lookup", input |-> withRev(inp, rev), rev |-> rev,
                           log |-> <<>>]]
    /\ last' = [op |-> "fetch"]
    /\ UNCHANGED <<input, cache, firstTree, downloads, remembered>>

\* getRevFromRef returns the revision the remote reports for the ref.
ResolveOk(c, rev) ==
    /\ calls[c].pc = "resolve"
    /\ calls' = [calls EXCEPT ![c] =
         [pc |-> "lookup", input |-> withRev(calls[c].input, rev), rev |-> rev]
           @@ calls[c]]
    /\ UNCHANGED <<input, last, cache, firstTree, downloads, remembered>>

Failed(call) ==
    [pc |-> "done", status |-> "error", t |-> call.t, arg |-> call.arg,
     cache0 |-> call.cache0, log |-> call.log]

\* getRevFromRef throws (transport error, unparsable response).
ResolveFail(c) ==
    /\ calls[c].pc = "resolve"
    /\ calls' = [calls EXCEPT ![c] = Failed(calls[c])]
    /\ UNCHANGED <<input, last, cache, firstTree, downloads, remembered>>

\* Lookup that writes the cache entry on a miss, before the download.
LookupAddsFirst(c) ==
    /\ calls[c].pc = "lookup"
    /\ LET call == calls[c]
           key == immutableAttrs(call.input, call.rev)
           res == lookup(cache, key)
           req == getDownloadUrl(call.t, call.input)
           log1 == Append(call.log, [ev |-> "lookup", key |-> key])
       IN  IF res # None
           THEN /\ calls' = [calls EXCEPT ![c] =
                     [pc |-> "done", status |-> "ok", key |-> key,
                      input |-> insert_or_assign(call.input, "lastModified",
                                                 res.info["lastModified"]),
                      tree |-> [storePath |-> res.storePath],
                      log |-> log1] @@ call]
                /\ UNCHANGED cache
           ELSE /\ calls' = [calls EXCEPT ![c] =
                     [pc |-> "download", key |-> key,
                      log |-> Append(log1, [ev |-> "downloadTarball", req |-> req])]
                       @@ call]
                /\ cache' = add(cache, key,
                                [rev |-> gitRev(call.rev), lastModified |-> 0], req)
    /\ UNCHANGED <<input, last, firstTree, downloads, remembered>>

\* Lines 168-176: the cache lookup; a hit returns, a miss sends the
\* archive request.
Lookup(c) ==
    /\ calls[c].pc = "lookup"
    /\ LET call == calls[c]
           key == immutableAttrs(call.input, call.rev)
           res == lookup(cache, key)
           log1 == Append(call.log, [ev |-> "lookup", key |-> key])
       IN  calls' = [calls EXCEPT ![c] =
             IF res # None
             THEN [pc |-> "done", status |-> "ok", key |-> key,
                   input |-> insert_or_assign(call.input, "lastModified",
                                              res.info["lastModified"]),
                   tree |-> [storePath |-> res.storePath],
                   log |-> log1] @@ call
             ELSE [pc |-> "download", key |-> key,
                   log |-> Append(log1, [ev |-> "downloadTarball",
                                         req |-> getDownloadUrl(call.t, call.input)])]
                  @@ call]
    /\ UNCHANGED <<input, last, cache, firstTree, downloads, remembered>>

\* Lines 183-185: downloadTarball returns the unpacked tree.
DownloadOk(c) ==
    /\ calls[c].pc = "download"
    /\ LET call == calls[c]
           dl == downloadTarball(getDownloadUrl(call.t, call.input))
       IN  /\ downloads[call.rev] < MaxDownloads
           /\ calls' = [calls EXCEPT ![c] =
                [pc |-> "add", tree |-> dl.tree, lastModified |-> dl.lastModified,
                 input |-> insert_or_assign(call.input, "lastModified", dl.lastModified)]
                  @@ call]
           /\ downloads' = [downloads EXCEPT ![call.rev] = @ + 1]
    /\ UNCHANGED <<input, last, cache, firstTree, remembered>>

\* downloadTarball throws.
DownloadFail(c) ==
    /\ calls[c].pc = "download"
    /\ calls' = [calls EXCEPT ![c] = Failed(calls[c])]
    /\ UNCHANGED <<input, last, cache, firstTree, downloads, remembered>>

\* CacheAdd that returns without writing the entry.
CacheAddSkipped(c) ==
    /\ calls[c].pc = "add"
    /\ calls' = [calls EXCEPT ![c] =
         [pc |-> "done", status |-> "ok",
          log |-> Append(calls[c].log, [ev |-> "add", key |-> calls[c].key])]
           @@ calls[c]]
    /\ UNCHANGED <<input, last, cache, firstTree, downloads, remembered>>

\* Lines 187-197: the cache entry is written and fetch returns.
CacheAdd(c) ==
    /\ calls[c].pc = "add"
    /\ LET call == calls[c]
           key == call.key
           info == insert_or_assign(insert_or_assign(Attrs0, "rev", gitRev(call.rev)),
                                    "lastModified", call.lastModified)
       IN  /\ cache' = add(cache, key, info, call.tree.storePath)
           /\ calls' = [calls EXCEPT ![c] =
                [pc |-> "done", status |-> "ok",
                 log |-> Append(call.log, [ev |-> "add", key |-> key])] @@ call]
    /\ UNCHANGED <<input, last, firstTree, downloads, remembered>>

\* The caller takes the result: a successful fetch hands back the resolved
\* Input.  remember chooses whether the history keeps this fetch.
FetchReturn(c, remember) ==
    /\ calls[c].pc = "done"
    /\ LET call == calls[c] IN
       IF call.status = "ok"
       THEN /\ input' = call.input
            /\ firstTree' = IF firstTree[call.rev] = None
                            THEN [firstTree EXCEPT ![call.rev] = call.tree]
                            ELSE firstTree
            /\ remembered' = IF remember
                             THEN [arg |-> call.arg, rev |-> call.rev, tree |-> call.tree]
                             ELSE remembered
       ELSE /\ ~remember
            /\ UNCHANGED <<input, firstTree, remembered>>
    /\ calls' = [calls EXCEPT ![c] = IdleCall]
    /\ UNCHANGED <<last, cache, downloads>>

\* ------------------------------------------------------------ input pools

Owner == <<"o">>

Repo == <<"r">>

Branch == <<"m">>

Host == <<"h">>

\* The hash R1 written in upper-case hexadecimal digits.
R1Upper == [i \in 1..RevLen |-> "A"]

\* S, and every member of S extended by the attribute name with a value
\* of vals.
Opt(S, name, vals) == S \cup {insert_or_assign(a, name, v) : a \in S, v \in vals}

\* Attribute bags and URLs of the fetch life cycle.
FetchAttrs ==
    Opt(Opt(Opt({[type |-> t, owner |-> Owner, repo |-> Repo] : t \in Types},
                "ref", {Branch}), "rev", Revs), "host", {Host})

FetchURLs ==
    {[scheme |-> t, path |-> p, query |-> q] :
        t \in Types,
        p \in {<<Owner, Repo>>, <<Owner, Repo, Branch>>, <<Owner, Repo, R2>>},
        q \in Opt({Attrs0}, "host", {Host})}

\* Attribute bags and URLs of the Input operations on their own.
AttrBags ==
    Opt(Opt(Opt(Opt(Opt(Opt(Opt(Opt(Opt({Attrs0},
        "type", Types \cup {"git"}),
        "owner", {Owner}),
        "repo", {Repo}),
        "ref", {Branch}),
        "rev", {R1}),
        "host", {Host, <<"h", "-">>}),
        "lastModified", {1}),
        "narHash", {<<"n">>}),
        "extra", {<<"x">>})

Segments ==
    {R1, R1Upper, Branch, [i \in 1..RevLen |-> "z"], <<"-", "m">>, <<"m", "-", ".">>,
     <<"m", "~">>}

Paths ==
    {<<>>, <<Owner>>, <<Owner, Repo>>, <<Owner, <<>>, Repo>>,
     <<Owner, Repo, R1, Branch>>}
      \cup {<<Owner, Repo, s>> : s \in Segments}

Queries ==
    Opt(Opt(Opt(Opt({Attrs0},
        "dir", {<<"d">>}),
        "host", {Host, <<>>, <<"h", "-">>}),
        "ref", {Branch, <<"-">>}),
        "rev", {R2, R1Upper, <<"z">>})

URLs ==
    {[scheme |-> t, path |-> p, query |-> q] :
        t \in Types \cup {"git"}, p \in Paths, q \in Queries}

RefOverrides == {NoText, Branch}

RevOverrides == {NoText} \cup Revs

\* ----------------------------------------------------------- specifications

\* The fetch life cycle, one call at a time.
FetchBeginSeq(c) == NoCall /\ FetchBegin(c)

Next ==
    \/ ClientIdle /\ \E t \in Types, url \in FetchURLs : InputFromURL(t, url)
    \/ ClientIdle /\ \E t \in Types, attrs \in FetchAttrs : InputFromAttrs(t, attrs)
    \/ \E ref \in RefOverrides, rev \in RevOverrides : ApplyOverrides(ref, rev)
    \/ ToURL
    \/ ParseRendered
    \/ Discard
    \/ \E c \in Callers : FetchBeginSeq(c)
    \/ \E c \in Callers, rev \in Revs : ResolveOk(c, rev)
    \/ \E c \in Callers : ResolveFail(c)
    \/ \E c \in Callers : Lookup(c)
    \/ \E c \in Callers : DownloadOk(c)
    \/ \E c \in Callers : DownloadFail(c)
    \/ \E c \in Callers : CacheAdd(c)
    \/ \E c \in Callers : FetchReturn(c, FALSE)

Spec == Init /\ [][Next]_vars

\* The Input operations on their own, over the larger pools.
NextCodec ==
    \/ ClientIdle /\ \E t \in Types, url \in URLs : InputFromURL(t, url)
    \/ ClientIdle /\ \E t \in Types, attrs \in AttrBags : InputFromAttrs(t, attrs)
    \/ \E ref \in RefOverrides, rev \in RevOverrides : ApplyOverrides(ref, rev)
    \/ ToURL
    \/ ParseRendered
    \/ Discard

SpecCodec == Init /\ [][NextCodec]_vars

\* Concurrent callers: the client hands an Input to a caller, which fetches
\* it while the client goes on to the next Input; the callers share the cache.
ConcAttrs ==
    {[type |-> "github", owner |-> Owner, repo |-> Repo],
     [type |-> "github", owner |-> Owner, repo |-> Repo, rev |-> R1, host |-> Host]}

ClientFree == input = None /\ last.op = "none"

\* inputFromAttrs while fetch calls may be in progress.
InputFromAttrsConc(t, attrs) ==
    /\ ClientFree
    /\ last' = [op |-> "inputFromAttrs", type |-> t, attrs |-> attrs,
                res |-> inputFromAttrs(t, attrs)]
    /\ input' = Taken(inputFromAttrs(t, attrs))
    /\ UNCHANGED <<cache, calls, firstTree, downloads, remembered>>

\* The client lets go of its Input while fetch calls may be in progress.
DiscardConc ==
    /\ last.op # "none"
    /\ input' = None
    /\ last' = [op |-> "none"]
    /\ UNCHANGED <<cache, calls, firstTree, downloads, remembered>>

NextConc ==
    \/ ClientFree /\ \E attrs \in ConcAttrs : InputFromAttrsConc("github", attrs)
    \/ DiscardConc
    \/ \E c \in Callers : FetchBegin(c)
    \/ \E c \in Callers, rev \in Revs : ResolveOk(c, rev)
    \/ \E c \in Callers : ResolveFail(c)
    \/ \E c \in Callers : Lookup(c)
    \/ \E c \in Callers : DownloadOk(c)
    \/ \E c \in Callers : DownloadFail(c)
    \/ \E c \in Callers : CacheAdd(c)
    \/ \E c \in Callers : FetchReturn(c, FALSE)

SpecConc == Init /\ [][NextConc]_vars

\* The fetch life cycle from attribute bags, one call at a time, with the
\* history keeping one earlier successful fetch.
HostAttrs == FetchAttrs

NextHost ==
    \/ ClientIdle /\ \E t \in Types, attrs \in HostAttrs : InputFromAttrs(t, attrs)
    \/ Discard
    \/ \E c \in Callers : FetchBeginSeq(c)
    \/ \E c \in Callers, rev \in Revs : ResolveOk(c, rev)
    \/ \E c \in Callers : ResolveFail(c)
    \/ \E c \in Callers : Lookup(c)
    \/ \E c \in Callers : DownloadOk(c)
    \/ \E c \in Callers : DownloadFail(c)
    \/ \E c \in Callers : CacheAdd(c)
    \/ \E c \in Callers, remember \in BOOLEAN : FetchReturn(c, remember)

SpecHost == Init /\ [][NextHost]_vars

\* ------------------------------------------------------------------ claims

HasBoth(inp) == Has(inp, "ref") /\ Has(inp, "rev")

\* The calls that have returned successfully and not yet been taken.
DoneOk(c) == calls[c].pc = "done" /\ calls[c].status = "ok"

Events(c) == {calls[c].log[i] : i \in 1..Len(calls[c].log)}

EventNames(c) == {e.ev : e \in Events(c)}

\* C1: no Input obtained from inputFromURL, inputFromAttrs, applyOverrides
\* or fetch has both ref and rev, and the assertion of toURL never fails.
C1_RefRevExclusive ==
    /\ input # None => ~HasBoth(input)
    /\ \A c \in Callers : DoneOk(c) => ~HasBoth(calls[c].input)
    /\ last.op = "toURL" => last.res.status # "AssertionFailure"

\* C2: applyOverrides throws BadURL when both overrides are supplied, and
\* otherwise returns an Input that does not have both ref and rev.
C2_ApplyOverrides ==
    last.op = "applyOverrides" =>
        IF last.ref # NoText /\ last.rev # NoText
        THEN last.res.status = "BadURL"
        ELSE last.res.status = "ok" /\ ~HasBoth(last.res.input)

\* C3: every key fetch passes to lookup or add has exactly the attributes
\* type and rev, type being a constant tag and rev the revision of the Input
\* that fetch returns.
C3_KeyIsTagAndRev ==
    \A c \in Callers : calls[c].pc # "idle" =>
        \A e \in Events(c) : e.ev \in {"lookup", "add"} =>
            /\ DOMAIN e.key = {"type", "rev"}
            /\ e.key["type"] = "git-tarball"
            /\ calls[c].pc # "done" \/ DoneOk(c) => e.key["rev"] = calls[c].input["rev"]

\* C3 witness: a fetch of an Input with a ref and a host has returned after
\* looking the key up, downloading and adding the entry.
C3_Witness ==
    \E c \in Callers :
        /\ DoneOk(c)
        /\ {"lookup", "add"} \subseteq EventNames(c)
        /\ Has(calls[c].arg, "ref") /\ Has(calls[c].arg, "host")

\* Inputs that differ in the host attribute and in nothing else.
DiffersOnlyInHost(a, b) == a # b /\ erase(a, "host") = erase(b, "host")

\* The remembered fetch A and the returning fetch of caller c are the two
\* fetches of C4: same resolved revision, Inputs differing only in host.
SameButHost(c) ==
    /\ DoneOk(c)
    /\ remembered # None
    /\ remembered.rev = calls[c].rev
    /\ DiffersOnlyInHost(remembered.arg, calls[c].arg)

\* C4: a fetch whose Input differs only in host from that of an earlier
\* successful fetch, and that resolves to the same revision, downloads
\* nothing and returns the tree the earlier fetch returned.
C4_HostSharesEntry ==
    \A c \in Callers : SameButHost(c) =>
        /\ "downloadTarball" \notin EventNames(c)
        /\ calls[c].tree = remembered.tree

\* C4 witness: the second fetch has returned; both Inputs named a branch, the
\* first one on the default host and the second one on another host.
C4_Witness ==
    \E c \in Callers :
        /\ SameButHost(c)
        /\ Has(calls[c].arg, "ref")
        /\ Has(calls[c].arg, "host") /\ ~Has(remembered.arg, "host")

\* Caller c fetches an Input that carries a revision whose fetch has
\* succeeded before.
Refetch(c) ==
    /\ calls[c].pc # "idle"
    /\ Has(calls[c].arg, "rev")
    /\ firstTree[getRev(calls[c].arg)] # None

\* C5: one call at a time, a fetch of an Input that carries a revision
\* fetched successfully before sends no ref-resolution request and no
\* archive request and returns the tree of the first fetch; the archive of a
\* revision is downloaded at most once.
C5_RefetchFromCache ==
    /\ \A c \in Callers : Refetch(c) =>
          /\ EventNames(c) \subseteq {"lookup"}
          /\ calls[c].pc \in {"lookup", "done"}
          /\ calls[c].pc = "done" =>
                /\ calls[c].status = "ok"
                /\ calls[c].tree = firstTree[getRev(calls[c].arg)]
    /\ \A r \in Revs : downloads[r] <= 1

\* C5 witness: an Input with rev and lastModified has been fetched again,
\* after the one download of its revision.
C5_Witness ==
    \E c \in Callers :
        /\ Refetch(c)
        /\ DoneOk(c)
        /\ Has(calls[c].arg, "lastModified")
        /\ downloads[getRev(calls[c].arg)] = 1

\* C6: the Input a successful fetch returns has no ref, has rev and
\* lastModified (hasAllInfo), and has the type, owner, repo and host of the
\* Input passed in.
C6_ReturnedInput ==
    \A c \in Callers : DoneOk(c) =>
        LET out == calls[c].input
            arg == calls[c].arg
        IN  /\ ~Has(out, "ref")
            /\ Has(out, "rev") /\ out["rev"] = calls[c].rev
            /\ Has(out, "lastModified")
            /\ hasAllInfo(out)
            /\ \A k \in {"type", "owner", "repo", "host"} :
                  /\ Has(out, k) <=> Has(arg, k)
                  /\ Has(arg, k) => out[k] = arg[k]

\* C6 witness: a fetch of an Input with a ref and a host has returned from
\* the cache (an earlier fetch of the revision returned after its download).
C6_Witness ==
    \E c \in Callers :
        /\ DoneOk(c)
        /\ "downloadTarball" \notin EventNames(c)
        /\ Has(calls[c].arg, "ref") /\ Has(calls[c].arg, "host")

\* C8: one call at a time, a fetch that fails leaves the cache as it was
\* when the call began and has executed no add; the cache changes during a
\* call only by the add of a call that then returns, and every add follows
\* the archive request of its call.
C8_FailedFetchKeepsCache ==
    \A c \in Callers : calls[c].pc # "idle" =>
        LET call == calls[c] IN
        /\ call.pc = "done" /\ call.status = "error" =>
              cache = call.cache0 /\ "add" \notin EventNames(c)
        /\ cache # call.cache0 => DoneOk(c) /\ "add" \in EventNames(c)
        /\ \A i \in 1..Len(call.log) : call.log[i].ev = "add" =>
              /\ DoneOk(c)
              /\ \E j \in 1..(i - 1) : call.log[j].ev = "downloadTarball"

\* C8 witness: with an entry in the cache, a fetch has failed in its
\* download.
C8_Witness ==
    \E c \in Callers :
        /\ calls[c].pc = "done" /\ calls[c].status = "error"
        /\ "downloadTarball" \in EventNames(c)
        /\ DOMAIN cache # {}

\* The last operation was inputFromURL / inputFromAttrs and returned an Input.
FromURLOk == last.op = "inputFromURL" /\ last.res.status = "ok"

FromAttrsOk == last.op = "inputFromAttrs" /\ last.res.status = "ok"

\* C7 as stated: hasAllInfo is false for every Input inputFromURL or
\* inputFromAttrs has just returned.
C7_Original ==
    FromURLOk \/ FromAttrsOk => ~hasAllInfo(last.res.input)

\* C7 as amended: hasAllInfo is false for every Input inputFromURL has just
\* returned, and for every Input inputFromAttrs has just returned for a bag
\* without rev or without lastModified.
C7_NoInfoAfterParse ==
    /\ FromURLOk => ~hasAllInfo(last.res.input)
    /\ FromAttrsOk /\ ~({"rev", "lastModified"} \subseteq DOMAIN last.attrs)
          => ~hasAllInfo(last.res.input)

\* C7 witness: inputFromAttrs has returned an Input for a bag with a rev and
\* without lastModified.
C7_Witness ==
    FromAttrsOk /\ Has(last.attrs, "rev") /\ ~Has(last.attrs, "lastModified")

\* The URL of the last inputFromURL call, seen independently of the parser:
\* its non-empty path pieces and what its third piece and its query supply.
Pieces(url) == SelectSeq(url.path, LAMBDA s : s # <<>>)

PathRev(url) == Len(Pieces(url)) = 3 /\ revRegex(Pieces(url)[3])

PathRef(url) ==
    Len(Pieces(url)) = 3 /\ ~revRegex(Pieces(url)[3]) /\ refRegex(Pieces(url)[3])

QueryRev(url) == Has(url.query, "rev") /\ revRegex(url.query["rev"])

QueryRef(url) == Has(url.query, "ref") /\ refRegex(url.query["ref"])

SuppliedTwice(url) ==
    \/ PathRev(url) /\ Has(url.query, "rev")
    \/ PathRef(url) /\ Has(url.query, "ref")

YieldsBoth(url) ==
    (PathRev(url) \/ QueryRev(url)) /\ (PathRef(url) \/ QueryRef(url))

OwnScheme == last.op = "inputFromURL" /\ last.url.scheme = last.type

\* C9: for a URL of the scheme, inputFromURL throws BadURL when rev or ref
\* is given both in the path and in the query, and when path and query
\* together yield a ref and a rev.
C9_ConflictsRejected ==
    OwnScheme /\ (SuppliedTwice(last.url) \/ YieldsBoth(last.url))
        => last.res.status = "BadURL"

\* C9 witness: the path gives a branch and the query a well-formed rev and
\* nothing else.
C9_Witness ==
    /\ OwnScheme
    /\ PathRef(last.url) /\ QueryRev(last.url) /\ DOMAIN last.url.query = {"rev"}
    /\ last.res.status = "BadURL"

\* The Input C10 expects for a URL: type, owner, repo and whichever of rev,
\* ref and host the path and the query supply.
Lowered(s) == [i \in 1..Len(s) |-> ToLower(s[i])]

Expected(t, url) ==
    LET p == Pieces(url)
        q == url.query
        names == {"type", "owner", "repo"}
                   \cup (IF PathRev(url) \/ Has(q, "rev") THEN {"rev"} ELSE {})
                   \cup (IF PathRef(url) \/ Has(q, "ref") THEN {"ref"} ELSE {})
                   \cup (IF Has(q, "host") THEN {"host"} ELSE {})
    IN  [k \in names |->
            CASE k = "type" -> t
              [] k = "owner" -> p[1]
              [] k = "repo" -> p[2]
              [] k = "rev" -> Lowered(IF PathRev(url) THEN p[3] ELSE q["rev"])
              [] k = "ref" -> IF PathRef(url) THEN p[3] ELSE q["ref"]
              [] k = "host" -> q["host"]]

\* C10: for a URL of the scheme, inputFromURL throws BadURL unless the path
\* has 2 or 3 pieces, and when the third piece is neither a rev nor a ref;
\* a third piece that matches the revision pattern becomes the rev, one that
\* only matches the ref pattern the ref; the Input returned holds exactly
\* type, owner, repo and the rev, ref and host supplied.
C10_ParseURL ==
    OwnScheme =>
        LET url == last.url
            n == Len(Pieces(url))
        IN  /\ n \notin {2, 3} => last.res.status = "BadURL"
            /\ n = 3 /\ ~PathRev(url) /\ ~PathRef(url) => last.res.status = "BadURL"
            /\ last.res.status = "ok" =>
                  /\ n \in {2, 3}
                  /\ last.res.input = Expected(last.type, url)
                  /\ PathRev(url) => Has(last.res.input, "rev")
                  /\ PathRef(url) => Has(last.res.input, "ref")

\* C10 witness: a URL whose third piece is a hash in upper-case digits and
\* whose query gives a host has been parsed.
C10_Witness ==
    /\ OwnScheme /\ last.res.status = "ok"
    /\ PathRev(last.url) /\ Pieces(last.url)[3] = R1Upper
    /\ Has(last.url.query, "host")

\* C11: for a bag of the scheme's type, inputFromAttrs throws
\* UnsupportedAttribute when the bag has a name outside the eight recognised
\* ones, otherwise MissingAttribute when owner or repo is absent, and
\* otherwise returns the bag as the Input; for any other bag it returns no
\* Input and throws nothing.
C11_ValidateAttrs ==
    last.op = "inputFromAttrs" =>
        LET bag == last.attrs
            names == {"type", "owner", "repo", "ref", "rev", "narHash",
                      "lastModified", "host"}
        IN  IF Has(bag, "type") /\ bag["type"] = last.type
            THEN IF ~(DOMAIN bag \subseteq names)
                 THEN last.res.status = "UnsupportedAttribute"
                 ELSE IF ~({"owner", "repo"} \subseteq DOMAIN bag)
                 THEN last.res.status = "MissingAttribute"
                 ELSE last.res.status = "ok" /\ last.res.input = bag
            ELSE last.res.status = "none"

\* C11 witness: a bag of the scheme's type with an unknown name and without
\* owner has been rejected for the unknown name.
C11_Witness ==
    /\ last.op = "inputFromAttrs"
    /\ Has(last.attrs, "type") /\ last.attrs["type"] = last.type
    /\ Has(last.attrs, "extra") /\ ~Has(last.attrs, "owner")
    /\ last.res.status = "UnsupportedAttribute"

\* The last three operations were inputFromURL of a URL, toURL of the Input
\* it returned and inputFromURL of the rendered URL.
RoundTrip ==
    /\ last.op = "inputFromURL" /\ Has(last, "from")
    /\ last.from.from.op = "inputFromURL"

Parsed == last.from.from

Rendered == last.url

\* C12: for a URL scheme:owner/repo, scheme:owner/repo/ref or
\* scheme:owner/repo/rev that inputFromURL accepts, the rendered URL has the
\* same scheme, owner and repo and the ref, or the rev in its lower-case
\* hexadecimal form, as third piece, and parsing it gives the same owner,
\* repo and ref or rev.
C12_RenderRoundTrip ==
    RoundTrip /\ Parsed.url.query = Attrs0 =>
        LET url == Parsed.url
            p == Pieces(url)
            first == Parsed.res.input
        IN  /\ Rendered.scheme = url.scheme
            /\ Rendered.path[1] = p[1] /\ Rendered.path[2] = p[2]
            /\ Len(Rendered.path) = Len(p)
            /\ PathRef(url) => Rendered.path[3] = p[3]
            /\ PathRev(url) => Rendered.path[3] = Lowered(p[3])
            /\ last.res.status = "ok"
            /\ \A k \in {"owner", "repo", "ref", "rev"} :
                  /\ Has(last.res.input, k) <=> Has(first, k)
                  /\ Has(first, k) => last.res.input[k] = first[k]

\* C12 witness: a URL whose third piece is a hash in upper-case digits has
\* been parsed, rendered and parsed again.
C12_Witness ==
    /\ RoundTrip /\ Parsed.url.query = Attrs0
    /\ PathRev(Parsed.url) /\ Pieces(Parsed.url)[3] = R1Upper

\* C17: parsing the rendering of an Input that inputFromURL returned gives
\* that Input again.
C17_Inverse ==
    RoundTrip => last.res.status = "ok" /\ last.res.input = Parsed.res.input

PublicHost(t) == IF t = "github" THEN <<"github.com">> ELSE <<"gitlab.com">>

Active(c) == calls[c].pc # "idle"

\* C13: the ref-resolution request and the archive request of a fetch both
\* go to the host attribute of the Input, or to the public hostname of the
\* provider when the Input has none.
C13_SameHost ==
    \A c \in Callers : Active(c) =>
        \A e \in Events(c) : e.ev \in {"getRevFromRef", "downloadTarball"} =>
            e.req.host = IF Has(calls[c].arg, "host") THEN calls[c].arg["host"]
                         ELSE PublicHost(calls[c].t)

EventSeq(c) == [i \in 1..Len(calls[c].log) |-> calls[c].log[i].ev]

FetchOrders ==
    {<<>>, <<"getRevFromRef">>, <<"lookup">>, <<"getRevFromRef", "lookup">>,
     <<"lookup", "downloadTarball">>, <<"getRevFromRef", "lookup", "downloadTarball">>,
     <<"lookup", "downloadTarball", "add">>,
     <<"getRevFromRef", "lookup", "downloadTarball", "add">>}

\* C14: a fetch makes at most one ref-resolution request, then the cache
\* lookup, then at most one archive download; the resolution is made exactly
\* when the Input passed in has no rev, for the ref of the Input or HEAD when
\* it has none, and the download exactly when the lookup misses.
C14_StraightLine ==
    \A c \in Callers : Active(c) =>
        LET call == calls[c] IN
        /\ EventSeq(c) \in FetchOrders
        /\ "getRevFromRef" \in EventNames(c) <=> ~Has(call.arg, "rev")
        /\ \A e \in Events(c) : e.ev = "getRevFromRef" =>
              e.req.ref = IF Has(call.arg, "ref") THEN call.arg["ref"]
                          ELSE <<"H", "E", "A", "D">>
        /\ \A e \in Events(c) : e.ev = "lookup" =>
              ("downloadTarball" \in EventNames(c) <=> e.key \notin DOMAIN call.cache0)
        /\ call.pc \in {"download", "add"} \/ DoneOk(c) => "lookup" \in EventNames(c)

\* C14 witness: a fetch of an Input without ref and rev has resolved HEAD,
\* missed the cache, downloaded and stored the tree.
C14_Witness ==
    \E c \in Callers :
        /\ DoneOk(c)
        /\ ~Has(calls[c].arg, "ref") /\ ~Has(calls[c].arg, "rev")
        /\ EventSeq(c) = <<"getRevFromRef", "lookup", "downloadTarball", "add">>

\* C16 as stated: the tree a successful fetch returns was downloaded from
\* the archive of the provider, owner, repo and revision of that fetch.
C16_Original ==
    \A c \in Callers : DoneOk(c) =>
        LET from == calls[c].tree.storePath IN
        /\ from.type = calls[c].t
        /\ from.owner = calls[c].arg["owner"] /\ from.repo = calls[c].arg["repo"]
        /\ from.rev = getRev(calls[c].input)

\* C16: the tree a successful fetch returns was downloaded for the revision
\* the fetch resolved to.
C16_TreeOfRev ==
    \A c \in Callers : DoneOk(c) =>
        calls[c].tree.storePath.rev = getRev(calls[c].input)

\* C16 witness: a fetch was served the tree that a fetch for the other
\* provider had downloaded.
C16_Witness ==
    \E c \in Callers :
        /\ DoneOk(c) /\ calls[c].tree.storePath.type # calls[c].t
        /\ EventSeq(c) = <<"lookup">>

KeyEvents(c) == {e \in Events(c) : e.ev \in {"lookup", "add"}}

\* C18 as stated: the type field of the key of lookup and add is
\* "tree-archive".
C18_Original ==
    \A c \in Callers : Active(c) =>
        \A e \in KeyEvents(c) : e.key["type"] = "tree-archive"

\* C18: the type field of the key of lookup and add is "git-tarball", for
\* both providers.
C18_KeyTag ==
    \A c \in Callers : Active(c) =>
        \A e \in KeyEvents(c) : e.key["type"] = "git-tarball"

\* C18 witness: a fetch for the GitLab provider has looked up and added its
\* key.
C18_Witness ==
    \E c \in Callers :
        /\ Active(c) /\ calls[c].t = "gitlab"
        /\ {"lookup", "add"} \subseteq EventNames(c)

\* C19: an Input that inputFromURL or inputFromAttrs returns with a host
\* attribute has a host that matches the hostname pattern.
C19_HostValidated ==
    (FromURLOk \/ FromAttrsOk) /\ Has(last.res.input, "host") =>
        urlRegex(last.res.input["host"])

EntriesOf(rev) == {k \in DOMAIN cache : k["rev"] = gitRev(rev)}

\* C15: under every interleaving of fetch calls that share the cache, two
\* calls that resolved to the same rev use the same key, the rev stored in
\* every cache entry is the rev of its key, and the cache holds at most one
\* entry for a rev.
C15_RacingCallers ==
    /\ \A c1, c2 \in Callers :
          /\ Has(calls[c1], "key") /\ Has(calls[c2], "key")
          /\ calls[c1].rev = calls[c2].rev
          => calls[c1].key = calls[c2].key
    /\ \A k \in DOMAIN cache : cache[k].info["rev"] = k["rev"]
    /\ \A rev \in Revs : Cardinality(EntriesOf(rev)) <= 1

\* C15 witness: two callers with different Inputs raced on an uncached rev,
\* both downloaded and both added, and the cache holds one entry for it.
C15_Witness ==
    \E c1, c2 \in Callers :
        /\ c1 # c2 /\ DoneOk(c1) /\ DoneOk(c2)
        /\ calls[c1].rev = calls[c2].rev /\ calls[c1].arg # calls[c2].arg
        /\ {"downloadTarball", "add"} \subseteq EventNames(c1) \cap EventNames(c2)
        /\ Cardinality(EntriesOf(calls[c1].rev)) = 1

====
